---------------------------- MODULE Spec2Model ----------------------------
(***************************************************************************)
(* Model of the FIX OEMS trading dashboard (src/app.py, src/app_base.py):  *)
(* the order-row classification, the orders refresh, the amend/cancel      *)
(* flows (modal flow of app.py, row-selection flow of app_base.py) and the *)
(* order-entry handlers.                                                   *)
(*                                                                         *)
(* Representation of Python values.                                        *)
(*  - A value that may be None, "", a number or a non-numeric string is a  *)
(*    record [k, v]: k is "none", "blank", "num" or "text"; for "num", v   *)
(*    is the number in thousandths (100 shares = 100000, $10.004 = 10004). *)
(*  - A string field that may be missing holds NoneStr when missing.       *)
(*  - A displayed price (the string format_price returns) is a record      *)
(*    [k, cents]: k = "MKT" is the literal "MKT", k = "usd" is "$" followed*)
(*    by cents/100 with two decimals.                                      *)
(*  - An HTTP exchange is its outcome: 200, another status, or an          *)
(*    exception raised by requests (connection error, timeout).            *)
(***************************************************************************)
EXTENDS Integers, Sequences, FiniteSets, TLC

\* ------------------------------------------------------------------------
\* Bounds of the model
\* ------------------------------------------------------------------------

\* longest order list a fetch of /orders returns
MaxOrders == 2

\* ------------------------------------------------------------------------
\* Python values
\* ------------------------------------------------------------------------

NoneStr == "<None>"

None == [k |-> "none", v |-> 0]

Blank == [k |-> "blank", v |-> 0]

Text == [k |-> "text", v |-> 0]

Num(n) == [k |-> "num", v |-> n]

\* Python truthiness: None, "" and 0 are falsy
Truthy(x) == x.k = "text" \/ (x.k = "num" /\ x.v # 0)

StrTruthy(s) == s # NoneStr /\ s # ""

\* int(x) of a number: truncation toward zero, result in units
PyInt(x) == IF x.v >= 0 THEN x.v \div 1000 ELSE -((-x.v) \div 1000)

\* f"{fv:.2f}": thousandths rounded to hundredths (inputs are never ties)
Round2(m) == (m + 5) \div 10

\* str.upper() on the status and symbol strings of the model
Upper(s) ==
  CASE s = "new" -> "NEW"
    [] s = "New" -> "NEW"
    [] s = "pending" -> "PENDING"
    [] s = "partially_filled" -> "PARTIALLY_FILLED"
    [] s = "Partially_Filled" -> "PARTIALLY_FILLED"
    [] s = "pending_replace" -> "PENDING_REPLACE"
    [] s = "pending_new" -> "PENDING_NEW"
    [] s = "pending_cancel" -> "PENDING_CANCEL"
    [] s = "filled" -> "FILLED"
    [] s = "Filled" -> "FILLED"
    [] s = "cancelled" -> "CANCELLED"
    [] s = "replaced" -> "REPLACED"
    [] s = "rejected" -> "REJECTED"
    [] s = "expired" -> "EXPIRED"
    [] s = "aapl" -> "AAPL"
    [] s = "Msft" -> "MSFT"
    [] s = "limit" -> "LIMIT"
    [] s = "market" -> "MARKET"
    [] OTHER -> s

\* str.lower() on the filter values of the model
Lower(s) ==
  CASE s = "WORKING" -> "working"
    [] s = "Filled" -> "filled"
    [] s = "ALL" -> "all"
    [] OTHER -> s

\* ------------------------------------------------------------------------
\* Helpers of app.py
\* ------------------------------------------------------------------------

OPEN_STATUSES ==
  {"NEW", "PENDING", "PARTIALLY_FILLED", "PENDING_REPLACE", "PENDING_NEW", "PENDING_CANCEL"}

\* the marker of the actions column (a vertical ellipsis in the source)
Glyph == "dots"

MKT == [k |-> "MKT", cents |-> 0]

Usd(c) == [k |-> "usd", cents |-> c]

\* format_price without the test fv <= 0
format_price_NoSignTest(v) ==
  IF v.k = "none" THEN MKT
  ELSE IF v.k # "num" THEN MKT
  ELSE Usd(Round2(v.v))

\* None gives "MKT"; float(v) raises for a text that is no number and the
\* except branch gives "MKT"; a number gives "MKT" or f"${fv:.2f}"
format_price(v) ==
  IF v.k = "none" THEN MKT
  ELSE IF v.k # "num" THEN MKT
  ELSE IF v.v <= 0 THEN MKT
  ELSE Usd(Round2(v.v))

\* (row.get("status") or "").upper()
StatusKey(status) == Upper(IF StrTruthy(status) THEN status ELSE "")

\* the marker without the uppercasing of the status
ActionsMarker_CaseSensitive(status) ==
  IF (IF StrTruthy(status) THEN status ELSE "") \in OPEN_STATUSES THEN Glyph ELSE ""

ActionsMarker(status) == IF StatusKey(status) \in OPEN_STATUSES THEN Glyph ELSE ""

\* NormalizeRow with leavesQuantity = row.get("leavesQuantity") or quantity
NormalizeRow_LeavesOr(o) ==
  [clOrdId |-> o.clOrdId,
   symbol |-> o.symbol,
   side |-> o.side,
   quantity |-> o.quantity,
   status |-> o.status,
   price |-> format_price(o.price),
   filledQuantity |-> IF Truthy(o.filledQuantity) THEN o.filledQuantity ELSE Num(0),
   leavesQuantity |-> IF Truthy(o.leavesQuantity) THEN o.leavesQuantity ELSE o.quantity,
   actions |-> ActionsMarker(o.status)]

\* one iteration of the loop of normalize_orders_for_table
NormalizeRow(o) ==
  [clOrdId |-> o.clOrdId,
   symbol |-> o.symbol,
   side |-> o.side,
   quantity |-> o.quantity,
   status |-> o.status,
   price |-> format_price(o.price),
   filledQuantity |-> IF Truthy(o.filledQuantity) THEN o.filledQuantity ELSE Num(0),
   leavesQuantity |-> IF o.leavesQuantity.k = "none" THEN o.quantity ELSE o.leavesQuantity,
   actions |-> ActionsMarker(o.status)]

normalize_orders_for_table(orders) == [i \in 1..Len(orders) |-> NormalizeRow(orders[i])]

\* safe_get_json: the parsed body on a 200, None on anything else
HttpOutcomes == {"200", "500", "raise"}

safe_get_json(outcome, body) == IF outcome = "200" THEN <<body>> ELSE <<>>

\* safe_get_json(...) or []
OrEmpty(got) == IF got = <<>> THEN <<>> ELSE got[1]

\* the working test of the filter without PENDING_CANCEL
IsWorking_NoPendingCancel(o) == StatusKey(o.status) \in
  {"NEW", "PENDING", "PARTIALLY_FILLED", "PENDING_REPLACE", "PENDING_NEW"}

IsWorking(o) == StatusKey(o.status) \in
  {"NEW", "PENDING", "PARTIALLY_FILLED", "PENDING_REPLACE", "PENDING_NEW", "PENDING_CANCEL"}

IsFilled(o) == StatusKey(o.status) = "FILLED"

\* FilterOrders returning nothing for a value that is not one of the three
FilterOrders_KnownValuesOnly(orders, filter_value) ==
  LET fv == Lower(IF StrTruthy(filter_value) THEN filter_value ELSE "all")
  IN  IF fv = "working" THEN SelectSeq(orders, IsWorking)
      ELSE IF fv = "filled" THEN SelectSeq(orders, IsFilled)
      ELSE IF fv = "all" THEN orders
      ELSE <<>>

\* body of refresh_orders after the fetch; fv = (filter_value or "all").lower()
FilterOrders(orders, filter_value) ==
  LET fv == Lower(IF StrTruthy(filter_value) THEN filter_value ELSE "all")
  IN  IF fv = "working" THEN SelectSeq(orders, IsWorking)
      ELSE IF fv = "filled" THEN SelectSeq(orders, IsFilled)
      ELSE orders

RefreshedData(outcome, body, filter_value) ==
  normalize_orders_for_table(FilterOrders(OrEmpty(safe_get_json(outcome, body)), filter_value))

\* ------------------------------------------------------------------------
\* What the backend can answer: order lists over a small pool of orders
\* ------------------------------------------------------------------------

Order(id, sym, side, qty, price, status, filled, leaves) ==
  [clOrdId |-> id, symbol |-> sym, side |-> side, quantity |-> qty, price |-> price,
   status |-> status, filledQuantity |-> filled, leavesQuantity |-> leaves]

OrderPool ==
  { Order("A1", "AAPL", "BUY", Num(100000), Num(10004), "NEW", None, None),
    Order("A1", "AAPL", "BUY", Num(100000), Num(10004), "FILLED", Num(100000), Num(0)),
    Order("A2", "MSFT", "SELL", Num(50000), None, "partially_filled", Num(20000), Num(30000)) }

\* clOrdId is unique per order: a list names no order twice
UniqueIds(l) == \A i, j \in 1..Len(l) : l[i].clOrdId = l[j].clOrdId => i = j

OrderLists == { l \in UNION { [1..n -> OrderPool] : n \in 0..MaxOrders } : UniqueIds(l) }

\* how a GET of /orders can end: a 200 with a list, a non-200, an exception
OrdersResponses ==
  { [outcome |-> "200", body |-> b] : b \in OrderLists }
    \cup { [outcome |-> o, body |-> <<>>] : o \in {"500", "raise"} }

\* ------------------------------------------------------------------------
\* Executions, statistics and sessions: helpers of the poll callbacks
\* ------------------------------------------------------------------------

\* f"${float(p):.2f}" if p and float(p) > 0 else "-"
Dash == [k |-> "-", cents |-> 0]

ExecPrice(p) == IF Truthy(p) /\ p.k = "num" /\ p.v > 0 THEN Usd(Round2(p.v)) ELSE Dash

ExecNormalizeRow(e) ==
  [execId |-> e.execId, clOrdId |-> e.clOrdId,
   lastPrice |-> ExecPrice(e.lastPrice), avgPrice |-> ExecPrice(e.avgPrice)]

normalize_execs_for_table(execs) == [i \in 1..Len(execs) |-> ExecNormalizeRow(execs[i])]

Execution(id, clordid, last, avg) ==
  [execId |-> id, clOrdId |-> clordid, lastPrice |-> last, avgPrice |-> avg]

ExecLists ==
  { <<>>,
    << Execution("E1", "A1", Num(10004), Num(10004)) >>,
    << Execution("E2", "A2", Num(20500), None), Execution("E1", "A1", Num(10004), Num(10004)) >> }

\* how a GET of /executions?limit=50 can end
ExecsResponses ==
  { [outcome |-> "200", body |-> b] : b \in ExecLists }
    \cup { [outcome |-> o, body |-> <<>>] : o \in {"500", "raise"} }

RECURSIVE CountOf(_, _, _)
\* sum(1 for o in orders if (o.get("status") or "").upper() in statuses)
CountOf(orders, statuses, i) ==
  IF i > Len(orders) THEN 0
  ELSE (IF StatusKey(orders[i].status) \in statuses THEN 1 ELSE 0)
         + CountOf(orders, statuses, i + 1)

\* the six statistics update_stats makes of an order list; each is shown as
\* str(count), which is held here as the count itself
StatsOf(orders) ==
  [orders |-> Len(orders),
   filled |-> CountOf(orders, {"FILLED"}, 1),
   partial |-> CountOf(orders, {"PARTIALLY_FILLED"}, 1),
   open |-> CountOf(orders, {"NEW", "PENDING", "PENDING_REPLACE", "PENDING_NEW",
                             "PENDING_CANCEL", "PARTIALLY_FILLED"}, 1),
   cancelled |-> CountOf(orders, {"CANCELLED", "REPLACED"}, 1),
   rejected |-> CountOf(orders, {"REJECTED"}, 1)]

Session(loggedOn, sender, target) ==
  [loggedOn |-> loggedOn, senderCompId |-> sender, targetCompId |-> target]

SessionPool == { Session(TRUE, "CLIENT1", "EXCH"), Session(FALSE, "CLIENT2", "EXCH") }

MaxSessions == 2

SessionLists == UNION { [1..n -> SessionPool] : n \in 0..MaxSessions }

\* how a GET of /sessions can end
SessionsResponses ==
  { [outcome |-> "200", body |-> b] : b \in SessionLists }
    \cup { [outcome |-> o, body |-> <<>>] : o \in {"500", "raise"} }

\* the footer text, a tuple of its parts: f"Session: {sender} -> {target}"
Disconnected == [text |-> "DISCONNECTED", color |-> "red", footer |-> <<"No active session">>]

Connected(s) ==
  [text |-> "CONNECTED", color |-> "green",
   footer |-> <<"Session: ", s.senderCompId, s.targetCompId>>]

\* what update_connection_status returns for the sessions it fetched
BadgeOf(sessions) ==
  IF sessions # <<>> /\ Len(sessions) > 0 /\ sessions[1].loggedOn
  THEN Connected(sessions[1])
  ELSE Disconnected

\* the callbacks that have refresh-interval.n_intervals as their Input and
\* fetch from the backend
TickCallbacks ==
  {"update_connection_status", "update_stats", "refresh_orders", "refresh_executions"}

\* the backend paths the poll callbacks GET
ReadUrls == {"/sessions", "/orders", "/executions"}

NoReads == [u \in ReadUrls |-> 0]

\* ------------------------------------------------------------------------
\* State
\* ------------------------------------------------------------------------

VARIABLES
  data,                 \* orders-blotter.data (app.py)
  filter_value,         \* orders-filter.value
  modal_opened,         \* order-actions-modal.opened
  modal_order_data,     \* modal-order-data.data: NoData or the stored row
  modal_amend_qty,      \* modal-amend-qty.value
  modal_amend_price,    \* modal-amend-price.value
  modal_action_status,  \* modal-action-status.children (the alert text)
  entry,                \* the four State inputs of an order-entry form
  order_status_msg,     \* order-status-msg.children
  drawer_order_status_msg, \* drawer-order-status-msg.children
  base_data,            \* orders-blotter.data (app_base.py)
  action_clordid,       \* action-clordid.value (app_base.py)
  action_symbol,        \* action-symbol.value
  action_side,          \* action-side.value
  amend_qty,            \* amend-qty.value
  amend_price,          \* amend-price.value
  action_status_msg,    \* action-status-msg.children
  selected_status,      \* history: status of the row select_order last read
  raw_order,            \* an order record handed to the helpers
  normalized,           \* the rows normalize_orders_for_table made of it
  raw_orders,           \* an order list handed to the helpers
  filtered,             \* per filter value, what the filter of refresh_orders keeps of it
  table,                \* per filter value, the rows refresh_orders makes of it
  counted,              \* the statistics update_stats makes of it
  backend,              \* the order list of the backend, what GET /orders returns
  polled,               \* history: the list of the latest successful GET /orders
  inflight,             \* refreshes of the blotter that run on the server
  exec_data,            \* executions-blotter.data
  stats,                \* the six stat-* cards
  badge,                \* connection-badge children and color, footer-session-info
  n_intervals,          \* refresh-interval.n_intervals, modulo IntervalWrap
  pending,              \* callbacks of the latest tick that have not run yet
  reads,                \* history: GETs issued by the callbacks of the latest tick
  ev,                   \* the handler that ran last
  req                   \* the write request that handler issued, NoReq if none

modalVars == <<modal_opened, modal_order_data, modal_amend_qty,
               modal_amend_price, modal_action_status>>

appVars == <<data, modalVars>>

entryVars == <<entry, order_status_msg, drawer_order_status_msg>>

baseVars == <<base_data, action_clordid, action_symbol, action_side, amend_qty,
              amend_price, action_status_msg, selected_status>>

pureVars == <<raw_order, normalized, raw_orders, filtered, table, counted>>

pollVars == <<exec_data, stats, badge, n_intervals, pending, reads>>

envVars == <<backend, polled, inflight>>

vars == <<filter_value, appVars, entryVars, baseVars, pureVars, pollVars, envVars, ev, req>>

NoData == [none |-> TRUE]

NoReq == [method |-> "none"]

FilterValues == {"all", "working", "filled"}

NoEntry == [none |-> TRUE]

NoOrder == [none |-> TRUE]

\* the layout of app.py: empty blotter, filter "all", modal closed and empty
InitApp ==
  /\ data = <<>>
  /\ filter_value = "all"
  /\ modal_opened = FALSE
  /\ modal_order_data = NoData
  /\ modal_amend_qty = None
  /\ modal_amend_price = None
  /\ modal_action_status = NoneStr
  /\ ev = "init"
  /\ req = NoReq

\* the order-entry forms before the first click
InitEntryIdle ==
  /\ entry = NoEntry
  /\ order_status_msg = NoneStr
  /\ drawer_order_status_msg = NoneStr

\* the layout of app_base.py: empty blotter, empty Order Actions panel
InitBaseIdle ==
  /\ base_data = <<>>
  /\ action_clordid = NoneStr
  /\ action_symbol = NoneStr
  /\ action_side = NoneStr
  /\ amend_qty = None
  /\ amend_price = None
  /\ action_status_msg = NoneStr
  /\ selected_status = NoneStr

\* no list has been handed to the helpers
InitListIdle ==
  /\ raw_orders = <<>>
  /\ filtered = <<>>
  /\ table = <<>>
  /\ counted = <<>>

\* an empty backend, no fetch made, no refresh running
InitEnvIdle ==
  /\ backend = <<>>
  /\ polled = <<>>
  /\ inflight = {}

InitPureIdle ==
  /\ raw_order = NoOrder
  /\ normalized = <<>>
  /\ InitListIdle
  /\ InitEnvIdle

\* the layout of app.py: badge DISCONNECTED, every statistic "0", empty
\* executions blotter, n_intervals = 0; Dash runs each callback once at load
InitPollIdle ==
  /\ exec_data = <<>>
  /\ stats = StatsOf(<<>>)
  /\ badge = [text |-> "DISCONNECTED", color |-> "red", footer |-> <<>>]
  /\ n_intervals = 0
  /\ pending = TickCallbacks
  /\ reads = NoReads

Init == InitApp /\ InitEntryIdle /\ InitBaseIdle /\ InitPureIdle /\ InitPollIdle

\* ------------------------------------------------------------------------
\* Orders refresh (poll tick or filter change)
\* ------------------------------------------------------------------------

\* refresh_orders dropping the stored snapshot when the refreshed list no
\* longer shows the order
refresh_orders_DropSnapshot(resp) ==
  /\ data' = RefreshedData(resp.outcome, resp.body, filter_value)
  /\ modal_order_data' =
       IF modal_order_data # NoData
          /\ \E i \in 1..Len(data') : data'[i].clOrdId = modal_order_data.clOrdId
       THEN modal_order_data ELSE NoData
  /\ ev' = "refresh_orders"
  /\ req' = NoReq
  /\ UNCHANGED <<envVars, filter_value, modal_opened, modal_amend_qty, modal_amend_price,
                 modal_action_status, entryVars, baseVars, pureVars, pollVars>>

refresh_orders(resp) ==
  /\ data' = RefreshedData(resp.outcome, resp.body, filter_value)
  /\ ev' = "refresh_orders"
  /\ req' = NoReq
  /\ UNCHANGED <<envVars, filter_value, modalVars, entryVars, baseVars, pureVars, pollVars>>

\* the user picks another segment of orders-filter, which runs refresh_orders
change_filter(fv, resp) ==
  /\ fv # filter_value
  /\ filter_value' = fv
  /\ data' = RefreshedData(resp.outcome, resp.body, fv)
  /\ ev' = "change_filter"
  /\ req' = NoReq
  /\ UNCHANGED <<envVars, modalVars, entryVars, baseVars, pureVars, pollVars>>

\* ------------------------------------------------------------------------
\* Order actions modal (app.py)
\* ------------------------------------------------------------------------

Columns == {"actions", "status"}

\* the cells a click can make active (rows are 0-based); a click lands past the
\* end of data when data was replaced by a shorter list since the cell was drawn
Cells == [row : 0..(MaxOrders - 1), column_id : Columns]

\* the values the NumberInputs of the modal can hold after an edit
AmendQtyInputs == {None, Blank, Num(200000)}

AmendPriceInputs == {None, Num(0), Num(11500)}

\* float(str(price_str).replace("$", "")), None for "MKT"
PrefillPrice(price_str) ==
  IF price_str.k = "MKT" THEN None ELSE Num(price_str.cents * 10)

\* ClickedRow without the test of the row's actions marker
ClickedRow_NoMarkerTest(cell, rows) ==
  IF rows = <<>> THEN NoData
  ELSE IF cell.column_id # "actions" THEN NoData
  ELSE IF cell.row >= Len(rows) THEN NoData
  ELSE rows[cell.row + 1]

\* the row open_actions_modal opens the modal for, or NoData when it returns no_action
ClickedRow(cell, rows) ==
  IF rows = <<>> THEN NoData
  ELSE IF cell.column_id # "actions" THEN NoData
  ELSE IF cell.row >= Len(rows) THEN NoData
  ELSE IF rows[cell.row + 1].actions = "" THEN NoData
  ELSE rows[cell.row + 1]

\* the click lands on the order whose snapshot the open modal already holds
Reselects(cell) ==
  /\ modal_opened
  /\ modal_order_data # NoData
  /\ ClickedRow(cell, data) # NoData
  /\ ClickedRow(cell, data).clOrdId = modal_order_data.clOrdId

\* open_actions_modal closing the modal on a click on the order it already holds
open_actions_modal_Toggle(cell) ==
  /\ LET row == ClickedRow(cell, data)
     IN  IF row = NoData
         THEN UNCHANGED <<modal_opened, modal_order_data, modal_amend_qty,
                          modal_amend_price>>
         ELSE /\ modal_opened' = ~Reselects(cell)
              /\ modal_order_data' = row
              /\ modal_amend_qty' = row.quantity
              /\ modal_amend_price' = PrefillPrice(row.price)
  /\ ev' = IF Reselects(cell) THEN "open_actions_modal:same" ELSE "open_actions_modal"
  /\ req' = NoReq
  /\ UNCHANGED <<envVars, entryVars, baseVars, pureVars, pollVars, data, filter_value, modal_action_status>>

\* open_actions_modal leaving the amend inputs of the modal empty
open_actions_modal_NoPrefill(cell) ==
  /\ LET row == ClickedRow(cell, data)
     IN  IF row = NoData
         THEN UNCHANGED <<modal_opened, modal_order_data, modal_amend_qty,
                          modal_amend_price>>
         ELSE /\ modal_opened' = TRUE
              /\ modal_order_data' = row
              /\ modal_amend_qty' = None
              /\ modal_amend_price' = None
  /\ ev' = IF Reselects(cell) THEN "open_actions_modal:same" ELSE "open_actions_modal"
  /\ req' = NoReq
  /\ UNCHANGED <<envVars, entryVars, baseVars, pureVars, pollVars, data, filter_value, modal_action_status>>

\* A click makes cell the active cell of orders-blotter, which runs
\* open_actions_modal. When it opens the modal it also resets active_cell to
\* None, so that a second click on the same cell runs it again: every click
\* runs the handler, and active_cell itself is not part of the state.
open_actions_modal(cell) ==
  /\ LET row == ClickedRow(cell, data)
     IN  IF row = NoData
         THEN UNCHANGED <<modal_opened, modal_order_data, modal_amend_qty,
                          modal_amend_price>>
         ELSE /\ modal_opened' = TRUE
              /\ modal_order_data' = row
              /\ modal_amend_qty' = row.quantity
              /\ modal_amend_price' = PrefillPrice(row.price)
  /\ ev' = IF Reselects(cell) THEN "open_actions_modal:same" ELSE "open_actions_modal"
  /\ req' = NoReq
  /\ UNCHANGED <<envVars, entryVars, baseVars, pureVars, pollVars, data, filter_value, modal_action_status>>

\* the modal's own close control (close button, overlay, escape key)
close_modal ==
  /\ modal_opened
  /\ modal_opened' = FALSE
  /\ ev' = "close_modal"
  /\ req' = NoReq
  /\ UNCHANGED <<envVars, entryVars, baseVars, pureVars, pollVars, data, filter_value,
                 modal_order_data, modal_amend_qty,
                 modal_amend_price, modal_action_status>>

edit_amend_qty(v) ==
  /\ modal_opened
  /\ v # modal_amend_qty
  /\ modal_amend_qty' = v
  /\ ev' = "edit_amend_qty"
  /\ req' = NoReq
  /\ UNCHANGED <<envVars, entryVars, baseVars, pureVars, pollVars, data, filter_value,
                 modal_opened, modal_order_data,
                 modal_amend_price, modal_action_status>>

edit_amend_price(v) ==
  /\ modal_opened
  /\ v # modal_amend_price
  /\ modal_amend_price' = v
  /\ ev' = "edit_amend_price"
  /\ req' = NoReq
  /\ UNCHANGED <<envVars, entryVars, baseVars, pureVars, pollVars, data, filter_value,
                 modal_opened, modal_order_data,
                 modal_amend_qty, modal_action_status>>

\* payload of the PUT: symbol and side, plus the truthy inputs
AmendPayload(symbol, side, new_qty, new_price) ==
  [symbol |-> symbol, side |-> side]
    @@ (IF Truthy(new_qty) THEN "newQuantity" :> PyInt(new_qty) ELSE <<>>)
    @@ (IF Truthy(new_price) THEN "newPrice" :> new_price.v ELSE <<>>)

\* handle_modal_actions with its local check and its close rule as parameters:
\* validate, whether an amend without inputs is rejected; closes(outcome),
\* whether the modal is closed after a request that ended in outcome
ModalActionVariant(triggered_id, outcome, order_data, new_qty, new_price,
                   validate, closes(_)) ==
  IF order_data = NoData
  THEN [status |-> "", close |-> FALSE, req |-> NoReq]
  ELSE IF ~StrTruthy(order_data.clOrdId)
  THEN [status |-> "No order selected", close |-> FALSE, req |-> NoReq]
  ELSE IF triggered_id = "modal-cancel-btn"
  THEN [status |-> CASE outcome = "200" -> "Cancel request sent"
                     [] outcome = "raise" -> "Error"
                     [] OTHER -> "Cancel failed",
        close |-> closes(outcome),
        req |-> [method |-> "DELETE", clOrdId |-> order_data.clOrdId,
                 params |-> [symbol |-> order_data.symbol, side |-> order_data.side]]]
  ELSE IF validate /\ ~Truthy(new_qty) /\ ~Truthy(new_price)
  THEN [status |-> "Enter new quantity or price", close |-> FALSE, req |-> NoReq]
  ELSE [status |-> CASE outcome = "200" -> "Amend request sent"
                     [] outcome = "raise" -> "Error"
                     [] OTHER -> "Amend failed",
        close |-> closes(outcome),
        req |-> [method |-> "PUT", clOrdId |-> order_data.clOrdId,
                 json |-> AmendPayload(order_data.symbol, order_data.side,
                                       new_qty, new_price)]]

NeverCloses(outcome) == FALSE

AlwaysCloses(outcome) == TRUE

ClosesOn200(outcome) == outcome = "200"

\* handle_modal_actions leaving the modal open after a 200
ModalActionResult_StaysOpen(triggered_id, outcome, order_data, new_qty, new_price) ==
  ModalActionVariant(triggered_id, outcome, order_data, new_qty, new_price,
                     TRUE, NeverCloses)

\* handle_modal_actions closing the modal after every request
ModalActionResult_ClosesOnFailure(triggered_id, outcome, order_data, new_qty, new_price) ==
  ModalActionVariant(triggered_id, outcome, order_data, new_qty, new_price,
                     TRUE, AlwaysCloses)

\* handle_modal_actions without the check of the amend inputs
ModalActionResult_NoCheck(triggered_id, outcome, order_data, new_qty, new_price) ==
  ModalActionVariant(triggered_id, outcome, order_data, new_qty, new_price,
                     FALSE, ClosesOn200)

\* handle_modal_actions without the check of the snapshot's clOrdId
ModalActionResult_NoIdCheck(triggered_id, outcome, order_data, new_qty, new_price) ==
  IF order_data = NoData
  THEN [status |-> "", close |-> FALSE, req |-> NoReq]
  ELSE ModalActionVariant(triggered_id, outcome,
                          [order_data EXCEPT !.clOrdId =
                             IF StrTruthy(@) THEN @ ELSE "None"],
                          new_qty, new_price, TRUE, ClosesOn200)

\* what handle_modal_actions returns and sends:
\* [status: the alert text, close: whether it returns opened = False, req]
ModalActionResult(triggered_id, outcome, order_data, new_qty, new_price) ==
  IF order_data = NoData
  THEN [status |-> "", close |-> FALSE, req |-> NoReq]
  ELSE IF ~StrTruthy(order_data.clOrdId)
  THEN [status |-> "No order selected", close |-> FALSE, req |-> NoReq]
  ELSE IF triggered_id = "modal-cancel-btn"
  THEN [status |-> CASE outcome = "200" -> "Cancel request sent"
                     [] outcome = "raise" -> "Error"
                     [] OTHER -> "Cancel failed",
        close |-> (outcome = "200"),
        req |-> [method |-> "DELETE", clOrdId |-> order_data.clOrdId,
                 params |-> [symbol |-> order_data.symbol, side |-> order_data.side]]]
  ELSE IF ~Truthy(new_qty) /\ ~Truthy(new_price)
  THEN [status |-> "Enter new quantity or price", close |-> FALSE, req |-> NoReq]
  ELSE [status |-> CASE outcome = "200" -> "Amend request sent"
                     [] outcome = "raise" -> "Error"
                     [] OTHER -> "Amend failed",
        close |-> (outcome = "200"),
        req |-> [method |-> "PUT", clOrdId |-> order_data.clOrdId,
                 json |-> AmendPayload(order_data.symbol, order_data.side,
                                       new_qty, new_price)]]

ModalButtons == {"modal-amend-btn", "modal-cancel-btn"}

\* handle_modal_actions taking the order out of the blotter itself once its
\* cancel was accepted
handle_modal_actions_RemovesRow(triggered_id, outcome) ==
  LET res == ModalActionResult(triggered_id, outcome, modal_order_data,
                               modal_amend_qty, modal_amend_price)
      Other(o) == o.clOrdId # modal_order_data.clOrdId
  IN  /\ modal_action_status' = res.status
      /\ modal_opened' = IF res.close THEN FALSE ELSE modal_opened
      /\ req' = res.req
      /\ ev' = "handle_modal_actions"
      /\ data' = IF res.close /\ triggered_id = "modal-cancel-btn"
                 THEN SelectSeq(data, Other) ELSE data
      /\ UNCHANGED <<envVars, entryVars, baseVars, pureVars, pollVars, filter_value,
                     modal_order_data, modal_amend_qty, modal_amend_price>>

\* a click on Amend Order or Cancel Order; outcome is how the HTTP exchange
\* ends if one is made
handle_modal_actions(triggered_id, outcome) ==
  LET res == ModalActionResult(triggered_id, outcome, modal_order_data,
                               modal_amend_qty, modal_amend_price)
  IN  /\ modal_action_status' = res.status
      /\ modal_opened' = IF res.close THEN FALSE ELSE modal_opened
      /\ req' = res.req
      /\ ev' = "handle_modal_actions"
      /\ UNCHANGED <<envVars, entryVars, baseVars, pureVars, pollVars, data, filter_value, modal_order_data,
                     modal_amend_qty, modal_amend_price>>

Next ==
  \/ \E resp \in OrdersResponses : refresh_orders(resp)
  \/ \E fv \in FilterValues, resp \in OrdersResponses : change_filter(fv, resp)
  \/ \E cell \in Cells : open_actions_modal(cell)
  \/ close_modal
  \/ \E v \in AmendQtyInputs : edit_amend_qty(v)
  \/ \E v \in AmendPriceInputs : edit_amend_price(v)
  \/ \E b \in ModalButtons, outcome \in HttpOutcomes : handle_modal_actions(b, outcome)

Spec == Init /\ [][Next]_vars

\* ------------------------------------------------------------------------
\* Properties of the order actions modal (checked under Spec)
\* ------------------------------------------------------------------------

ClickEvents == {"open_actions_modal", "open_actions_modal:same"}

\* the cell is in the actions column of a row of data whose marker is non-empty
Actionable(cell) ==
  /\ cell.column_id = "actions"
  /\ cell.row < Len(data)
  /\ data[cell.row + 1].actions # ""

\* C1: a click opens the modal and stores the clicked row only if the cell is
\* in the actions column of a row with a non-empty marker; every other click
\* (empty marker, other column, row past the end, empty table) changes neither
\* the modal's opened state, the stored snapshot, the amend inputs nor the
\* status message, and sends nothing.
C1_ClickGate ==
  [][\A cell \in Cells :
       open_actions_modal(cell) =>
         IF Actionable(cell)
         THEN modal_opened' /\ modal_order_data' = data[cell.row + 1]
         ELSE UNCHANGED modalVars /\ req' = NoReq]_vars

C1_Witness ==
  /\ ev \in ClickEvents
  /\ modal_opened
  /\ \E i \in 1..Len(data) : data[i] = modal_order_data /\ data[i].actions # ""

\* C4: a cancel or amend request answered with 200 leaves the modal closed,
\* and a closed modal is opened by nothing but a click on the actions cell of
\* a row with a marker: no refresh, whatever list it fetches, opens it.
C4_ClosedAfterSuccess ==
  [][/\ (\E b \in ModalButtons : handle_modal_actions(b, "200") /\ req' # NoReq)
          => ~modal_opened'
     /\ (~modal_opened /\ modal_opened')
          => \E cell \in Cells : open_actions_modal(cell) /\ Actionable(cell)]_vars

C4_Witness ==
  /\ ev = "refresh_orders"
  /\ data # <<>>
  /\ ~modal_opened
  /\ modal_action_status \in {"Cancel request sent", "Amend request sent"}

FailureTexts == {"Cancel failed", "Amend failed", "Error"}

\* C5: a cancel or amend request that ends in a non-200 status or an exception
\* leaves the modal as open as it was, shows a failure text, and keeps the
\* snapshot and the amend inputs, so that the same click again sends the same
\* request for the same clOrdId.
C5_FailureKeepsOpen ==
  [][\A b \in ModalButtons, o \in {"500", "raise"} :
       (handle_modal_actions(b, o) /\ req' # NoReq) =>
         /\ modal_opened' = modal_opened
         /\ modal_action_status' \in FailureTexts
         /\ UNCHANGED <<modal_order_data, modal_amend_qty, modal_amend_price>>
         /\ \A o2 \in HttpOutcomes :
              ModalActionResult(b, o2, modal_order_data', modal_amend_qty',
                                modal_amend_price').req = req']_vars

C5_Witness ==
  /\ ev = "handle_modal_actions"
  /\ modal_opened
  /\ modal_action_status \in FailureTexts
  /\ req # NoReq

\* C6 as claimed: a click on the marker of the order the open modal already
\* holds closes the modal (toggle-close).
C6_ToggleClose ==
  [][\A cell \in Cells :
       (open_actions_modal(cell) /\ Reselects(cell)) => ~modal_opened']_vars

\* C6 amended: a click on the marker of the order the open modal already holds
\* leaves the modal open, with the snapshot and the amend inputs taken again
\* from the clicked row.
C6_ReselectKeepsOpen ==
  [][\A cell \in Cells :
       (open_actions_modal(cell) /\ Reselects(cell)) =>
         /\ modal_opened'
         /\ modal_order_data' = data[cell.row + 1]
         /\ modal_amend_qty' = data[cell.row + 1].quantity]_vars

C6_Witness ==
  /\ ev = "open_actions_modal:same"
  /\ modal_opened
  /\ modal_order_data # NoData

Absent(x) == x.k \in {"none", "blank"}

C8_AmendPayload ==
  (ev = "handle_modal_actions" /\ req.method = "PUT") =>
    /\ req.json.symbol = modal_order_data.symbol
    /\ req.json.side = modal_order_data.side
    /\ ("newQuantity" \in DOMAIN req.json) <=> (modal_amend_qty.k = "num")
    /\ ("newPrice" \in DOMAIN req.json) <=> (modal_amend_price.k = "num")
    /\ (modal_amend_qty.k = "num" /\ Absent(modal_amend_price))
         => DOMAIN req.json = {"symbol", "side", "newQuantity"}

SnapshotIds(o) == [clOrdId |-> o.clOrdId, symbol |-> o.symbol, side |-> o.side]

RequestIds(r) ==
  IF r.method = "DELETE"
  THEN [clOrdId |-> r.clOrdId, symbol |-> r.params.symbol, side |-> r.params.side]
  ELSE [clOrdId |-> r.clOrdId, symbol |-> r.json.symbol, side |-> r.json.side]

\* C14: an actionable click replaces the snapshot by the clicked row as a
\* whole; every other step (poll tick, filter change, edit, close, Amend,
\* Cancel) leaves the snapshot as it is; and the identifier, symbol and side of
\* every amend or cancel request are those of the snapshot.
C14_SnapshotIdentity ==
  [][/\ ev' \in ClickEvents =>
          /\ \A cell \in Cells :
               (open_actions_modal(cell) /\ Actionable(cell)) =>
                 modal_order_data' = data[cell.row + 1]
          /\ (~ \E cell \in Cells : open_actions_modal(cell) /\ Actionable(cell)) =>
               modal_order_data' = modal_order_data
     /\ ev' \notin ClickEvents => modal_order_data' = modal_order_data
     /\ req' # NoReq =>
          /\ modal_order_data # NoData
          /\ RequestIds(req') = SnapshotIds(modal_order_data)]_vars

\* a cancel of A1 sent from the snapshot while the refreshed blotter shows
\* another order in A1's row
C14_Witness ==
  /\ ev = "handle_modal_actions"
  /\ req # NoReq
  /\ req.method = "DELETE"
  /\ req.clOrdId = "A1"
  /\ modal_order_data.clOrdId = "A1"
  /\ Len(data) = 1
  /\ data[1].clOrdId = "A2"

\* the amend inputs hold what open_actions_modal put there for the snapshot
Unedited ==
  /\ modal_order_data # NoData
  /\ modal_amend_qty = modal_order_data.quantity
  /\ modal_amend_price = (IF modal_order_data.price = MKT THEN None
                          ELSE Num(10 * modal_order_data.price.cents))

\* C26: a click that opens the modal fills the quantity input with the
\* quantity of the clicked row and the price input with the number the row's
\* price shows (nothing for "MKT"); a click on Amend with the inputs as they
\* were filled is not rejected and sends a PUT for the snapshot's order whose
\* newQuantity is the snapshot's quantity.
C26_PrefilledAmend ==
  [][/\ ev' \in ClickEvents =>
         \A cell \in Cells :
           open_actions_modal(cell) /\ Actionable(cell) =>
             /\ modal_amend_qty' = data[cell.row + 1].quantity
             /\ modal_amend_price' =
                  (IF data[cell.row + 1].price = MKT THEN None
                   ELSE Num(10 * data[cell.row + 1].price.cents))
             /\ Unedited'
     /\ ev' = "handle_modal_actions" =>
         \A outcome \in HttpOutcomes :
           handle_modal_actions("modal-amend-btn", outcome) /\ Unedited =>
             /\ modal_action_status' # "Enter new quantity or price"
             /\ req' # NoReq
             /\ req'.method = "PUT"
             /\ req'.clOrdId = modal_order_data.clOrdId
             /\ 1000 * req'.json.newQuantity = modal_order_data.quantity.v
    ]_vars

\* Amend was clicked on the untouched inputs of the market order A2
C26_Witness ==
  /\ ev = "handle_modal_actions"
  /\ Unedited
  /\ modal_order_data.clOrdId = "A2"
  /\ modal_amend_price = None
  /\ req # NoReq
  /\ req.method = "PUT"
  /\ req.json.newQuantity = 50

\* C27: a click that opens the modal for a row leaves the status message
\* of the modal empty.
C27_OpensWithoutMessage ==
  [][ev' \in ClickEvents =>
       \A cell \in Cells :
         open_actions_modal(cell) /\ Actionable(cell) =>
           modal_action_status' \in {NoneStr, ""}
    ]_vars

\* ------------------------------------------------------------------------
\* normalize_orders_for_table on arbitrary order records (SpecPure)
\* ------------------------------------------------------------------------

\* status values a record can carry: the ten of the backend in upper, lower
\* and mixed case, unknown ones, the empty string and none at all
RawStatuses ==
  {"NEW", "PENDING", "PARTIALLY_FILLED", "PENDING_REPLACE", "PENDING_NEW", "PENDING_CANCEL",
   "FILLED", "CANCELLED", "REPLACED", "REJECTED",
   "new", "pending", "partially_filled", "pending_replace", "pending_new", "pending_cancel",
   "filled", "cancelled", "replaced", "rejected",
   "New", "Partially_Filled", "Filled", "EXPIRED", "expired", "", NoneStr}

\* prices a record can carry: none, a text that is no number, zero, negative
\* and positive numbers (0.004, 10.004, 172.3)
RawPrices == {None, Text, Num(0), Num(-5000), Num(4), Num(10004), Num(172300)}

RawOrders ==
  { Order("A1", "AAPL", side, Num(100000), price, status, filled, leaves) :
      side \in {"BUY", "SELL"}, price \in RawPrices, status \in RawStatuses,
      filled \in {None, Num(40000)}, leaves \in {None, Num(0)} }

InitPure ==
  /\ InitApp /\ InitEntryIdle /\ InitBaseIdle /\ InitPollIdle
  /\ raw_order \in RawOrders
  /\ normalized = <<>>
  /\ InitListIdle
  /\ InitEnvIdle

pure_normalize ==
  /\ normalized = <<>>
  /\ normalized' = normalize_orders_for_table(<<raw_order>>)
  /\ ev' = "normalize_orders_for_table"
  /\ UNCHANGED <<envVars, filter_value, appVars, entryVars, baseVars, pollVars, raw_order, req,
                 raw_orders, filtered, table, counted>>

NextPure == pure_normalize

SpecPure == InitPure /\ [][NextPure]_vars

\* C2: the row made of an order has a non-empty actions marker iff the order's
\* status, uppercased, is one of the six open statuses; the marker is empty
\* for the four terminal statuses, for a missing status and for unknown ones.
\* The other fields of the order vary freely and do not enter the condition.
C2_MarkerIffOpen ==
  normalized # <<>> =>
    /\ (normalized[1].actions # "") <=>
         (Upper(raw_order.status) \in {"NEW", "PENDING", "PARTIALLY_FILLED",
                                       "PENDING_REPLACE", "PENDING_NEW", "PENDING_CANCEL"})
    /\ raw_order.status \in {"FILLED", "CANCELLED", "REPLACED", "REJECTED", "filled",
                             "EXPIRED", "", NoneStr}
         => normalized[1].actions = ""

C2_Witness ==
  /\ normalized # <<>>
  /\ raw_order.status = "pending_cancel"
  /\ raw_order.price = None
  /\ normalized[1].actions # ""

\* C24: the price of the row is "MKT" when the order's price is absent, no
\* number, zero or negative; for a positive number it is "$" and the number
\* in hundredths, at most half a hundredth away from the price, never "MKT".
C24_FormatPrice ==
  normalized # <<>> =>
    LET p == raw_order.price
        shown == normalized[1].price
    IN  IF p.k = "num" /\ p.v > 0
        THEN /\ shown.k = "usd"
             /\ shown # MKT
             /\ 10 * shown.cents - p.v \in -5..5
             /\ p = Num(172300) => shown.cents = 17230
        ELSE shown = MKT

C24_Witness ==
  /\ normalized # <<>>
  /\ raw_order.price = Num(-5000)
  /\ normalized[1].price = MKT

\* ------------------------------------------------------------------------
\* The filter, the table rows and the statistics of one order list (SpecList)
\* ------------------------------------------------------------------------

\* {clOrdId A1, status NEW, quantity 100, price 10}, no filled or leaves quantity
ListExample == Order("A1", "AAPL", "BUY", Num(100000), Num(10000), "NEW", None, None)

\* one order per spelling of the status
StatusOrders ==
  { Order("B1", "MSFT", "SELL", Num(50000), None, status, None, None) :
      status \in RawStatuses }

\* orders that carry filledQuantity, and leavesQuantity absent, 0 or positive
FieldOrders ==
  { Order("B2", "AAPL", "BUY", Num(100000), Num(10004), status, filled, leaves) :
      status \in {"FILLED", "partially_filled"}, filled \in {Num(0), Num(40000)},
      leaves \in {None, Num(0), Num(60000)} }

\* the orders of the longer lists
ListPool ==
  { ListExample,
    Order("B1", "MSFT", "SELL", Num(50000), None, "pending_cancel", None, None),
    Order("B1", "MSFT", "SELL", Num(50000), None, "filled", None, None),
    Order("B1", "MSFT", "SELL", Num(50000), None, "CANCELLED", None, None),
    Order("B1", "MSFT", "SELL", Num(50000), None, NoneStr, None, None),
    Order("B2", "AAPL", "BUY", Num(100000), Num(10004), "FILLED", Num(40000), Num(0)) }

ListInputs ==
  {<<>>}
    \cup { <<o>> : o \in StatusOrders \cup FieldOrders \cup {ListExample} }
    \cup UNION { [1..n -> ListPool] : n \in 2..MaxOrders }

\* values of orders-filter.value: the three of the control, none, empty,
\* other spellings and a value the control does not offer
ListFilterValues == {"all", "working", "filled", NoneStr, "", "WORKING", "Filled", "closed"}

InitList ==
  /\ InitApp /\ InitEntryIdle /\ InitBaseIdle /\ InitPollIdle
  /\ raw_order = NoOrder
  /\ normalized = <<>>
  /\ raw_orders \in ListInputs
  /\ filtered = <<>>
  /\ table = <<>>
  /\ counted = <<>>
  /\ InitEnvIdle

\* the filter of refresh_orders, for each filter value
pure_filter ==
  /\ filtered = <<>>
  /\ filtered' = << [fv \in ListFilterValues |-> FilterOrders(raw_orders, fv)] >>
  /\ ev' = "filter"
  /\ UNCHANGED <<envVars, filter_value, appVars, entryVars, baseVars, pollVars, req,
                 raw_order, normalized, raw_orders, table, counted>>

\* what refresh_orders returns for the list, for each filter value
pure_table ==
  /\ table = <<>>
  /\ table' = << [fv \in ListFilterValues |-> RefreshedData("200", raw_orders, fv)] >>
  /\ ev' = "table"
  /\ UNCHANGED <<envVars, filter_value, appVars, entryVars, baseVars, pollVars, req,
                 raw_order, normalized, raw_orders, filtered, counted>>

\* the counts of update_stats for the list
pure_stats ==
  /\ counted = <<>>
  /\ counted' = << StatsOf(OrEmpty(safe_get_json("200", raw_orders))) >>
  /\ ev' = "stats"
  /\ UNCHANGED <<envVars, filter_value, appVars, entryVars, baseVars, pollVars, req,
                 raw_order, normalized, raw_orders, filtered, table>>

NextList ==
  \/ pure_filter
  \/ pure_table
  \/ pure_stats

SpecList == InitList /\ [][NextList]_vars

\* the spellings of the statuses that are open, and that are FILLED, once uppercased
OpenSpellings == { s \in RawStatuses : Upper(s) \in OPEN_STATUSES }

FilledSpellings == { s \in RawStatuses : Upper(s) = "FILLED" }

RECURSIVE Keep(_, _, _)
\* the orders of l from position i on whose status is in statuses, in order
Keep(l, statuses, i) ==
  IF i > Len(l) THEN <<>>
  ELSE (IF l[i].status \in statuses THEN <<l[i]>> ELSE <<>>) \o Keep(l, statuses, i + 1)

\* C22: with the filter value "working" (in any letter case) the filter keeps
\* exactly the orders whose uppercased status is an open status, with "filled"
\* exactly those whose uppercased status is FILLED, and with "all", no value,
\* an empty value or an unknown value the whole list; the kept orders are in
\* the order of the list, none added, none repeated.
C22_FilterStable ==
  filtered # <<>> =>
    \A fv \in ListFilterValues :
      filtered[1][fv] =
        (IF fv \in {"working", "WORKING"} THEN Keep(raw_orders, OpenSpellings, 1)
         ELSE IF fv \in {"filled", "Filled"} THEN Keep(raw_orders, FilledSpellings, 1)
         ELSE raw_orders)

C22_Witness ==
  /\ filtered # <<>>
  /\ Len(raw_orders) = 2
  /\ raw_orders[1].status = "CANCELLED"
  /\ raw_orders[2].status = "pending_cancel"
  /\ filtered[1]["working"] = <<raw_orders[2]>>
  /\ filtered[1]["filled"] = <<>>
  /\ filtered[1]["closed"] = raw_orders

\* C23: the table has one row per order, in the order of the list; a row's
\* filledQuantity is 0 when the order has none and the order's otherwise, its
\* leavesQuantity is the order's quantity when the order has none and the
\* order's otherwise, an explicit 0 included. The example order gets
\* filledQuantity 0, leavesQuantity 100 and the marker, and no row under
\* the filter "filled".
C23_RowDefaults ==
  table # <<>> =>
    LET rows == table[1]["all"]
    IN  /\ Len(rows) = Len(raw_orders)
        /\ \A i \in 1..Len(raw_orders) :
             LET o == raw_orders[i]
             IN  /\ rows[i].clOrdId = o.clOrdId
                 /\ rows[i].status = o.status
                 /\ rows[i].filledQuantity =
                      (IF o.filledQuantity = None THEN Num(0) ELSE o.filledQuantity)
                 /\ rows[i].leavesQuantity =
                      (IF o.leavesQuantity = None THEN o.quantity ELSE o.leavesQuantity)
                 /\ o = ListExample =>
                      /\ rows[i].filledQuantity = Num(0)
                      /\ rows[i].leavesQuantity = Num(100000)
                      /\ rows[i].actions # ""
        /\ \A j \in 1..Len(table[1]["filled"]) : table[1]["filled"][j].clOrdId # "A1"

C23_Witness ==
  /\ table # <<>>
  /\ Len(raw_orders) = 2
  /\ raw_orders[1].leavesQuantity = Num(0)
  /\ raw_orders[2] = ListExample
  /\ table[1]["all"][1].leavesQuantity = Num(0)
  /\ table[1]["all"][2].leavesQuantity = Num(100000)
  /\ Len(table[1]["filled"]) = 1

\* the rows of a table that carry the actions marker
Marked(rows) == { i \in 1..Len(rows) : rows[i].actions # "" }

\* C28: for every order of the list, its row has the actions marker iff the
\* filter "working" keeps it, and the Working statistic counts exactly these
\* orders; under "working" every row has the marker, under "filled" none.
C28_ClassificationsAgree ==
  filtered # <<>> /\ table # <<>> /\ counted # <<>> =>
    LET rows == table[1]["all"]
        kept == filtered[1]["working"]
    IN  /\ \A i \in 1..Len(raw_orders) :
             rows[i].actions # "" <=> \E j \in 1..Len(kept) : kept[j] = raw_orders[i]
        /\ counted[1].open = Len(kept)
        /\ counted[1].open = Cardinality(Marked(rows))
        /\ Marked(table[1]["working"]) = 1..Len(table[1]["working"])
        /\ Marked(table[1]["filled"]) = {}

C28_Witness ==
  /\ filtered # <<>> /\ table # <<>> /\ counted # <<>>
  /\ Len(raw_orders) = 1
  /\ raw_orders[1].status = "pending_cancel"
  /\ table[1]["all"][1].actions # ""
  /\ Len(filtered[1]["working"]) = 1
  /\ counted[1].open = 1

\* ------------------------------------------------------------------------
\* Order entry: submit_order and handle_drawer_orders (SpecEntry)
\* ------------------------------------------------------------------------

\* what the fields of an order-entry form can hold at a click
EntrySymbols == {NoneStr, "", "aapl"}

EntryQuantities == {None, Blank, Num(0), Num(500), Num(-5000), Num(100000)}

EntryPrices == {None, Blank, Num(0), Num(10500)}

EntryOrderTypes == {NoneStr, "LIMIT", "MARKET"}

EntryForms ==
  [symbol : EntrySymbols, quantity : EntryQuantities, price : EntryPrices,
   order_type : EntryOrderTypes]

\* (order_type or "LIMIT").upper()
EffectiveType(order_type) == Upper(IF StrTruthy(order_type) THEN order_type ELSE "LIMIT")

PriceBlank(price) == price.k = "none" \/ price.k = "blank"

\* the alert of a POST that ended in outcome
PostAlert(side, outcome) ==
  CASE outcome = "200" -> IF side = "BUY" THEN "BUY order sent" ELSE "SELL order sent"
    [] outcome = "raise" -> "Error"
    [] OTHER -> "Order failed"

PostReq(payload) == [method |-> "POST", json |-> payload]

\* submit_order with the price check ahead of the symbol and quantity check
SubmitResult_PriceFirst(triggered_id, form, outcome) ==
  LET side == IF triggered_id = "buy-btn" THEN "BUY" ELSE "SELL"
      order_type == EffectiveType(form.order_type)
  IN  IF order_type = "LIMIT" /\ PriceBlank(form.price)
      THEN [msg |-> "Enter price for limit order", req |-> NoReq]
      ELSE IF ~StrTruthy(form.symbol) \/ ~Truthy(form.quantity)
      THEN [msg |-> "Enter symbol and quantity", req |-> NoReq]
      ELSE [msg |-> PostAlert(side, outcome),
            req |-> PostReq([symbol |-> Upper(form.symbol), side |-> side,
                             orderType |-> order_type, quantity |-> PyInt(form.quantity)]
                            @@ (IF order_type = "LIMIT" THEN "price" :> form.price.v
                                ELSE <<>>))]

\* submit_order without the price check
SubmitResult_NoPriceCheck(triggered_id, form, outcome) ==
  LET side == IF triggered_id = "buy-btn" THEN "BUY" ELSE "SELL"
      order_type == EffectiveType(form.order_type)
  IN  IF ~StrTruthy(form.symbol) \/ ~Truthy(form.quantity)
      THEN [msg |-> "Enter symbol and quantity", req |-> NoReq]
      ELSE [msg |-> PostAlert(side, outcome),
            req |-> PostReq([symbol |-> Upper(form.symbol), side |-> side,
                             orderType |-> order_type, quantity |-> PyInt(form.quantity)]
                            @@ (IF order_type = "LIMIT" THEN "price" :> form.price.v
                                ELSE <<>>))]

\* what submit_order returns and sends: [msg: the alert text, req]
SubmitResult(triggered_id, form, outcome) ==
  LET side == IF triggered_id = "buy-btn" THEN "BUY" ELSE "SELL"
      order_type == EffectiveType(form.order_type)
  IN  IF ~StrTruthy(form.symbol) \/ ~Truthy(form.quantity)
      THEN [msg |-> "Enter symbol and quantity", req |-> NoReq]
      ELSE IF order_type = "LIMIT" /\ PriceBlank(form.price)
      THEN [msg |-> "Enter price for limit order", req |-> NoReq]
      ELSE [msg |-> PostAlert(side, outcome),
            req |-> PostReq([symbol |-> Upper(form.symbol), side |-> side,
                             orderType |-> order_type, quantity |-> PyInt(form.quantity)]
                            @@ (IF order_type = "LIMIT" THEN "price" :> form.price.v
                                ELSE <<>>))]

\* what handle_drawer_orders returns and sends on a click on BUY or SELL
DrawerResult(triggered_id, form, outcome) ==
  LET side == IF triggered_id = "drawer-buy-btn" THEN "BUY" ELSE "SELL"
      order_type == EffectiveType(form.order_type)
  IN  IF ~StrTruthy(form.symbol)
      THEN [msg |-> "Enter a symbol", req |-> NoReq]
      ELSE IF ~Truthy(form.quantity)
      THEN [msg |-> "Enter quantity", req |-> NoReq]
      ELSE IF order_type = "LIMIT" /\ PriceBlank(form.price)
      THEN [msg |-> "Enter price for limit order", req |-> NoReq]
      ELSE [msg |-> PostAlert(side, outcome),
            req |-> PostReq([symbol |-> Upper(form.symbol), side |-> side,
                             orderType |-> order_type, quantity |-> PyInt(form.quantity)]
                            @@ (IF order_type = "LIMIT" /\ Truthy(form.price)
                                THEN "price" :> form.price.v ELSE <<>>))]

InitEntry ==
  /\ InitApp /\ InitBaseIdle /\ InitPureIdle /\ InitPollIdle
  /\ entry \in EntryForms
  /\ order_status_msg = NoneStr
  /\ drawer_order_status_msg = NoneStr

\* a click on BUY or SELL of the order entry panel
submit_order(triggered_id, outcome) ==
  LET res == SubmitResult(triggered_id, entry, outcome)
  IN  /\ order_status_msg' = res.msg
      /\ req' = res.req
      /\ ev' = "submit_order"
      /\ UNCHANGED <<envVars, filter_value, appVars, baseVars, pureVars, pollVars, entry,
                     drawer_order_status_msg>>

\* a click on BUY or SELL of the trading drawer
handle_drawer_orders(triggered_id, outcome) ==
  LET res == DrawerResult(triggered_id, entry, outcome)
  IN  /\ drawer_order_status_msg' = res.msg
      /\ req' = res.req
      /\ ev' = "handle_drawer_orders"
      /\ UNCHANGED <<envVars, filter_value, appVars, baseVars, pureVars, pollVars, entry, order_status_msg>>

\* a click on a quick quantity button runs handle_drawer_orders too: no_update
handle_drawer_orders_qty ==
  /\ ev' = "handle_drawer_orders:qty"
  /\ req' = NoReq
  /\ UNCHANGED <<envVars, filter_value, appVars, baseVars, pureVars, pollVars, entryVars>>

NextEntry ==
  \/ \E b \in {"buy-btn", "sell-btn"}, outcome \in HttpOutcomes : submit_order(b, outcome)
  \/ \E b \in {"drawer-buy-btn", "drawer-sell-btn"}, outcome \in HttpOutcomes :
       handle_drawer_orders(b, outcome)
  \/ handle_drawer_orders_qty

SpecEntry == InitEntry /\ [][NextEntry]_vars

\* the alert the handler that ran last has put in its status area
EntryAlert == IF ev = "submit_order" THEN order_status_msg ELSE drawer_order_status_msg

BuySellClick == ev \in {"submit_order", "handle_drawer_orders"}

SymbolMissing == entry.symbol \in {NoneStr, ""}

QuantityMissing == entry.quantity \in {None, Blank}

\* C9 as claimed: in both handlers a BUY/SELL click with a missing symbol or a
\* missing quantity shows "Enter symbol and quantity" and sends nothing, also
\* when the limit price is missing too.
C9_SymbolQuantityAlert ==
  (BuySellClick /\ (SymbolMissing \/ QuantityMissing)) =>
    /\ EntryAlert = "Enter symbol and quantity"
    /\ req = NoReq

\* C9 amended: a BUY/SELL click with a missing symbol or a missing quantity
\* sends nothing and shows, in submit_order, "Enter symbol and quantity" and,
\* in handle_drawer_orders, "Enter a symbol" when the symbol is missing and
\* "Enter quantity" otherwise; this also when the limit price is missing.
C9_MissingFieldAlert ==
  (BuySellClick /\ (SymbolMissing \/ QuantityMissing)) =>
    /\ req = NoReq
    /\ ev = "submit_order" => order_status_msg = "Enter symbol and quantity"
    /\ ev = "handle_drawer_orders" =>
         drawer_order_status_msg =
           IF SymbolMissing THEN "Enter a symbol" ELSE "Enter quantity"

C9_Witness ==
  /\ ev = "submit_order"
  /\ QuantityMissing
  /\ ~SymbolMissing
  /\ entry.order_type = "LIMIT"
  /\ entry.price = None
  /\ order_status_msg = "Enter symbol and quantity"
  /\ drawer_order_status_msg = "Enter quantity"

\* C10: a BUY/SELL click with a symbol, a quantity other than 0 and no price
\* (None or blank) shows "Enter price for limit order" and sends nothing when
\* the order type is LIMIT or unset, and sends a create request when the
\* order type is MARKET.
C10_LimitNeedsPrice ==
  ( /\ BuySellClick
    /\ ~SymbolMissing
    /\ entry.quantity.k = "num" /\ entry.quantity.v # 0
    /\ entry.price \in {None, Blank} ) =>
      IF entry.order_type \in {NoneStr, "LIMIT"}
      THEN EntryAlert = "Enter price for limit order" /\ req = NoReq
      ELSE req.method = "POST" /\ req.json.orderType = "MARKET"

C10_Witness ==
  /\ ev = "submit_order"
  /\ entry.order_type = NoneStr
  /\ entry.price = Blank
  /\ order_status_msg = "Enter price for limit order"
  /\ req = NoReq

\* the keys of a create payload that carries no price
BasePayloadKeys == {"symbol", "side", "orderType", "quantity"}

\* C11 as claimed: every create request of submit_order and of
\* handle_drawer_orders has the keys symbol (the form's symbol in upper case),
\* side, orderType and quantity, and the key price exactly when orderType is
\* LIMIT.
C11_PriceIffLimit ==
  (BuySellClick /\ req # NoReq) =>
    /\ req.method = "POST"
    /\ req.json.symbol = Upper(entry.symbol)
    /\ req.json.side \in {"BUY", "SELL"}
    /\ req.json.orderType = EffectiveType(entry.order_type)
    /\ DOMAIN req.json =
         BasePayloadKeys \cup (IF req.json.orderType = "LIMIT" THEN {"price"} ELSE {})

\* C12 as claimed: every create request carries a non-empty symbol and a
\* quantity that is an integer greater than 0, whatever quantity the handler
\* received.
C12_PositiveQuantity ==
  (BuySellClick /\ req # NoReq) =>
    /\ req.json.symbol \notin {NoneStr, ""}
    /\ req.json.quantity > 0

\* ------------------------------------------------------------------------
\* Row selection and Order Actions panel of app_base.py (SpecBase)
\* ------------------------------------------------------------------------

\* one iteration of the loop of normalize_orders_for_table of app_base.py:
\* the rows have no actions column
BaseNormalizeRow(o) ==
  [clOrdId |-> o.clOrdId,
   symbol |-> o.symbol,
   side |-> o.side,
   quantity |-> o.quantity,
   status |-> o.status,
   price |-> format_price(o.price),
   filledQuantity |-> IF Truthy(o.filledQuantity) THEN o.filledQuantity ELSE Num(0),
   leavesQuantity |-> IF o.leavesQuantity.k = "none" THEN o.quantity ELSE o.leavesQuantity]

BaseRefreshedData(outcome, body, fv) ==
  LET orders == FilterOrders(OrEmpty(safe_get_json(outcome, body)), fv)
  IN  [i \in 1..Len(orders) |-> BaseNormalizeRow(orders[i])]

InitBase ==
  /\ InitApp /\ InitEntryIdle /\ InitPureIdle /\ InitPollIdle
  /\ InitBaseIdle

base_refresh_orders(resp) ==
  /\ base_data' = BaseRefreshedData(resp.outcome, resp.body, filter_value)
  /\ ev' = "refresh_orders"
  /\ req' = NoReq
  /\ UNCHANGED <<envVars, filter_value, appVars, entryVars, pureVars, pollVars, action_clordid,
                 action_symbol, action_side, amend_qty, amend_price,
                 action_status_msg, selected_status>>

base_change_filter(fv, resp) ==
  /\ fv # filter_value
  /\ filter_value' = fv
  /\ base_data' = BaseRefreshedData(resp.outcome, resp.body, fv)
  /\ ev' = "change_filter"
  /\ req' = NoReq
  /\ UNCHANGED <<envVars, appVars, entryVars, pureVars, pollVars, action_clordid, action_symbol,
                 action_side, amend_qty, amend_price, action_status_msg,
                 selected_status>>

\* the selections the table can report: none, or one of the rows it shows
Selections(rows) == {<<>>} \cup { <<i>> : i \in 0..(Len(rows) - 1) }

\* orders-blotter.selected_rows becomes selected_rows, which runs select_order
select_order(selected_rows) ==
  /\ IF selected_rows # <<>> /\ base_data # <<>>
     THEN LET row == base_data[selected_rows[1] + 1]
          IN  /\ action_clordid' = row.clOrdId
              /\ action_symbol' = row.symbol
              /\ action_side' = row.side
              /\ amend_qty' = row.quantity
              /\ amend_price' = PrefillPrice(row.price)
              /\ selected_status' = row.status
     ELSE /\ action_clordid' = ""
          /\ action_symbol' = ""
          /\ action_side' = ""
          /\ amend_qty' = Blank
          /\ amend_price' = Blank
          /\ selected_status' = NoneStr
  /\ ev' = "select_order"
  /\ req' = NoReq
  /\ UNCHANGED <<envVars, filter_value, appVars, entryVars, pureVars, pollVars, base_data,
                 action_status_msg>>

base_edit_amend_qty(v) ==
  /\ v # amend_qty
  /\ amend_qty' = v
  /\ ev' = "edit_amend_qty"
  /\ req' = NoReq
  /\ UNCHANGED <<envVars, filter_value, appVars, entryVars, pureVars, pollVars, base_data, action_clordid,
                 action_symbol, action_side, amend_price, action_status_msg,
                 selected_status>>

base_edit_amend_price(v) ==
  /\ v # amend_price
  /\ amend_price' = v
  /\ ev' = "edit_amend_price"
  /\ req' = NoReq
  /\ UNCHANGED <<envVars, filter_value, appVars, entryVars, pureVars, pollVars, base_data, action_clordid,
                 action_symbol, action_side, amend_qty, action_status_msg,
                 selected_status>>

\* what handle_order_action returns and sends: [msg: the alert text, req]
OrderActionResult(triggered_id, outcome, clordid, symbol, side, new_qty, new_price) ==
  IF ~StrTruthy(clordid)
  THEN [msg |-> "Select an order first", req |-> NoReq]
  ELSE IF triggered_id = "cancel-btn"
  THEN [msg |-> CASE outcome = "200" -> "Cancel sent"
                  [] outcome = "raise" -> "Error"
                  [] OTHER -> "Cancel failed",
        req |-> [method |-> "DELETE", clOrdId |-> clordid,
                 params |-> [symbol |-> symbol, side |-> side]]]
  ELSE IF ~Truthy(new_qty) /\ ~Truthy(new_price)
  THEN [msg |-> "Enter new qty or price", req |-> NoReq]
  ELSE [msg |-> CASE outcome = "200" -> "Amend sent"
                  [] outcome = "raise" -> "Error"
                  [] OTHER -> "Amend failed",
        req |-> [method |-> "PUT", clOrdId |-> clordid,
                 json |-> AmendPayload(symbol, side, new_qty, new_price)]]

BaseButtons == {"cancel-btn", "amend-btn"}

\* a click on Amend or Cancel of the Order Actions panel
handle_order_action(triggered_id, outcome) ==
  LET res == OrderActionResult(triggered_id, outcome, action_clordid, action_symbol,
                               action_side, amend_qty, amend_price)
  IN  /\ action_status_msg' = res.msg
      /\ req' = res.req
      /\ ev' = "handle_order_action"
      /\ UNCHANGED <<envVars, filter_value, appVars, entryVars, pureVars, pollVars, base_data,
                     action_clordid, action_symbol, action_side, amend_qty,
                     amend_price, selected_status>>

NextBase ==
  \/ \E resp \in OrdersResponses : base_refresh_orders(resp)
  \/ \E fv \in FilterValues, resp \in OrdersResponses : base_change_filter(fv, resp)
  \/ \E sel \in Selections(base_data) : select_order(sel)
  \/ \E v \in AmendQtyInputs : base_edit_amend_qty(v)
  \/ \E v \in AmendPriceInputs : base_edit_amend_price(v)
  \/ \E b \in BaseButtons, outcome \in HttpOutcomes : handle_order_action(b, outcome)

SpecBase == InitBase /\ [][NextBase]_vars

\* C3: in neither flow is an amend or cancel request sent for an order whose
\* status was outside the open set when it was selected: the snapshot of the
\* modal (app.py), and the row select_order read (app_base.py), had one of the
\* six open statuses.
C3_GateNotBypassed ==
  /\ (ev = "handle_modal_actions" /\ req # NoReq)
       => Upper(modal_order_data.status) \in
            {"NEW", "PENDING", "PARTIALLY_FILLED", "PENDING_REPLACE", "PENDING_NEW",
             "PENDING_CANCEL"}
  /\ (ev = "handle_order_action" /\ req # NoReq)
       => Upper(selected_status) \in
            {"NEW", "PENDING", "PARTIALLY_FILLED", "PENDING_REPLACE", "PENDING_NEW",
             "PENDING_CANCEL"}

\* ------------------------------------------------------------------------
\* The poll timer and its callbacks (SpecPoll)
\* ------------------------------------------------------------------------

\* n_intervals is counted modulo IntervalWrap
IntervalWrap == 2

\* the alerts of a request that failed
WriteFailureTexts == {"Order failed", "Cancel failed", "Amend failed", "Error"}

\* a timer that stops while an alert of a failed request is shown
tick_PausedOnError ==
  /\ order_status_msg \notin WriteFailureTexts
  /\ modal_action_status \notin WriteFailureTexts
  /\ n_intervals' = (n_intervals + 1) % IntervalWrap
  /\ pending' = TickCallbacks
  /\ reads' = NoReads
  /\ ev' = "tick"
  /\ req' = NoReq
  /\ UNCHANGED <<envVars, filter_value, appVars, entryVars, baseVars, pureVars,
                 exec_data, stats, badge>>

\* dcc.Interval adds 1 to n_intervals every REFRESH_MS; that input change runs
\* each callback of TickCallbacks once, in any order. No callback has an
\* output on refresh-interval, so nothing disables it. A tick that comes
\* before the callbacks of the one before have run supersedes them.
tick ==
  /\ n_intervals' = (n_intervals + 1) % IntervalWrap
  /\ pending' = TickCallbacks
  /\ reads' = NoReads
  /\ ev' = "tick"
  /\ req' = NoReq
  /\ UNCHANGED <<envVars, filter_value, appVars, entryVars, baseVars, pureVars,
                 exec_data, stats, badge>>

update_connection_status(resp) ==
  /\ "update_connection_status" \in pending
  /\ badge' = BadgeOf(OrEmpty(safe_get_json(resp.outcome, resp.body)))
  /\ pending' = pending \ {"update_connection_status"}
  /\ reads' = [reads EXCEPT !["/sessions"] = @ + 1]
  /\ ev' = IF resp.outcome = "200" THEN "update_connection_status"
           ELSE "update_connection_status:failed"
  /\ req' = NoReq
  /\ UNCHANGED <<envVars, filter_value, appVars, entryVars, baseVars, pureVars,
                 exec_data, stats, n_intervals>>

\* update_stats keeping the statistics it shows when the fetch fails
update_stats_KeepOnFailure(resp) ==
  /\ "update_stats" \in pending
  /\ stats' = IF resp.outcome = "200" THEN StatsOf(resp.body) ELSE stats
  /\ pending' = pending \ {"update_stats"}
  /\ reads' = [reads EXCEPT !["/orders"] = @ + 1]
  /\ ev' = IF resp.outcome = "200" THEN "update_stats" ELSE "update_stats:failed"
  /\ req' = NoReq
  /\ UNCHANGED <<envVars, filter_value, appVars, entryVars, baseVars, pureVars,
                 exec_data, badge, n_intervals>>

update_stats(resp) ==
  /\ "update_stats" \in pending
  /\ stats' = StatsOf(OrEmpty(safe_get_json(resp.outcome, resp.body)))
  /\ pending' = pending \ {"update_stats"}
  /\ reads' = [reads EXCEPT !["/orders"] = @ + 1]
  /\ ev' = IF resp.outcome = "200" THEN "update_stats" ELSE "update_stats:failed"
  /\ req' = NoReq
  /\ UNCHANGED <<envVars, filter_value, appVars, entryVars, baseVars, pureVars,
                 exec_data, badge, n_intervals>>

\* refresh_orders sending again the request of the step before it
tick_refresh_orders_Resend(resp) ==
  /\ "refresh_orders" \in pending
  /\ data' = RefreshedData(resp.outcome, resp.body, filter_value)
  /\ pending' = pending \ {"refresh_orders"}
  /\ reads' = [reads EXCEPT !["/orders"] = @ + 1]
  /\ ev' = IF resp.outcome = "200" THEN "refresh_orders" ELSE "refresh_orders:failed"
  /\ req' = req
  /\ UNCHANGED <<envVars, filter_value, modalVars, entryVars, baseVars, pureVars,
                 exec_data, stats, badge, n_intervals>>

\* refresh_orders run by a tick
tick_refresh_orders(resp) ==
  /\ "refresh_orders" \in pending
  /\ data' = RefreshedData(resp.outcome, resp.body, filter_value)
  /\ pending' = pending \ {"refresh_orders"}
  /\ reads' = [reads EXCEPT !["/orders"] = @ + 1]
  /\ ev' = IF resp.outcome = "200" THEN "refresh_orders" ELSE "refresh_orders:failed"
  /\ req' = NoReq
  /\ UNCHANGED <<envVars, filter_value, modalVars, entryVars, baseVars, pureVars,
                 exec_data, stats, badge, n_intervals>>

refresh_executions(resp) ==
  /\ "refresh_executions" \in pending
  /\ exec_data' = normalize_execs_for_table(OrEmpty(safe_get_json(resp.outcome, resp.body)))
  /\ pending' = pending \ {"refresh_executions"}
  /\ reads' = [reads EXCEPT !["/executions"] = @ + 1]
  /\ ev' = IF resp.outcome = "200" THEN "refresh_executions"
           ELSE "refresh_executions:failed"
  /\ req' = NoReq
  /\ UNCHANGED <<envVars, filter_value, appVars, entryVars, baseVars, pureVars,
                 stats, badge, n_intervals>>

\* a click on Clear: the DELETE is sent and its outcome, an exception
\* included, is ignored
clear_executions(outcome) ==
  /\ exec_data' = <<>>
  /\ ev' = "clear_executions"
  /\ req' = [method |-> "DELETE", url |-> "/executions"]
  /\ UNCHANGED <<envVars, filter_value, appVars, entryVars, baseVars, pureVars,
                 stats, badge, n_intervals, pending, reads>>

\* the answers of /orders the poll callbacks are run with: at most one order
TickOrdersResponses == { r \in OrdersResponses : Len(r.body) =< 1 }

\* every callback runs once when the page is loaded
InitPoll == Init

NextPoll ==
  \/ tick
  \/ \E resp \in SessionsResponses : update_connection_status(resp)
  \/ \E resp \in TickOrdersResponses : update_stats(resp)
  \/ \E resp \in TickOrdersResponses : tick_refresh_orders(resp)
  \/ \E resp \in ExecsResponses : refresh_executions(resp)
  \/ \E outcome \in HttpOutcomes : clear_executions(outcome)
  \/ \E fv \in FilterValues, resp \in TickOrdersResponses : change_filter(fv, resp)

SpecPoll == InitPoll /\ [][NextPoll]_vars

\* the messages and alerts of the dashboard
Messages == <<modal_action_status, order_status_msg, drawer_order_status_msg>>

\* C16 as claimed: the callbacks of one tick issue three GETs in all, one of
\* /orders, one of /executions and one of /sessions, and each callback writes
\* its own display from its own answer and leaves the other displays alone.
C16_ThreeIndependentReads ==
  [][/\ (pending # {} /\ pending' = {}) => reads' = [u \in ReadUrls |-> 1]
     /\ \A resp \in SessionsResponses :
          update_connection_status(resp) => UNCHANGED <<data, exec_data, stats>>
     /\ \A resp \in TickOrdersResponses :
          update_stats(resp) => UNCHANGED <<data, exec_data, badge>>
     /\ \A resp \in TickOrdersResponses :
          tick_refresh_orders(resp) => UNCHANGED <<exec_data, stats, badge>>
     /\ \A resp \in ExecsResponses :
          refresh_executions(resp) => UNCHANGED <<data, stats, badge>>]_vars

\* C17 as claimed: update_connection_status shows CONNECTED exactly when the
\* fetch returned a list with a logged-on session at any position.
C17_ConnectedIffAnyLoggedOn ==
  [][\A resp \in SessionsResponses :
       update_connection_status(resp) =>
         ((badge'.text = "CONNECTED") <=>
            (resp.outcome = "200" /\ \E i \in 1..Len(resp.body) : resp.body[i].loggedOn))
         /\ badge'.text \in {"CONNECTED", "DISCONNECTED"}]_vars

ZeroStats ==
  [orders |-> 0, filled |-> 0, partial |-> 0, open |-> 0, cancelled |-> 0, rejected |-> 0]

\* the clOrdIds, in order, of a list of orders or rows
IdsOf(l) == [i \in 1..Len(l) |-> l[i].clOrdId]

\* C18: a refresh whose fetch fails (non-200 or exception) empties the display
\* it feeds - the orders blotter, the executions blotter, all six statistics -
\* whatever was shown before, writes no message and sends nothing; a refresh
\* whose fetch succeeds shows what was fetched, whatever was shown before.
C18_FailedReadShowsEmpty ==
  [][/\ ev' \in {"refresh_orders", "refresh_orders:failed"} =>
          \A resp \in TickOrdersResponses :
            tick_refresh_orders(resp) =>
              /\ resp.outcome # "200" => data' = <<>>
              /\ resp.outcome = "200" =>
                   IdsOf(data') = IdsOf(FilterOrders(resp.body, filter_value))
              /\ UNCHANGED Messages /\ req' = NoReq
     /\ ev' = "change_filter" =>
          \A fv \in FilterValues, resp \in TickOrdersResponses :
            change_filter(fv, resp) =>
              /\ resp.outcome # "200" => data' = <<>>
              /\ resp.outcome = "200" => IdsOf(data') = IdsOf(FilterOrders(resp.body, fv))
              /\ UNCHANGED Messages /\ req' = NoReq
     /\ ev' \in {"update_stats", "update_stats:failed"} =>
          \A resp \in TickOrdersResponses :
            update_stats(resp) =>
              /\ resp.outcome # "200" => stats' = ZeroStats
              /\ resp.outcome = "200" => stats'.orders = Len(resp.body)
              /\ UNCHANGED Messages /\ req' = NoReq
     /\ ev' \in {"refresh_executions", "refresh_executions:failed"} =>
          \A resp \in ExecsResponses :
            refresh_executions(resp) =>
              /\ resp.outcome # "200" => exec_data' = <<>>
              /\ resp.outcome = "200" => Len(exec_data') = Len(resp.body)
              /\ UNCHANGED Messages /\ req' = NoReq]_vars

\* the /orders fetch of update_stats has failed while the blotter still shows
\* the row of an earlier fetch: the statistics read 0
C18_Witness ==
  /\ ev = "update_stats:failed"
  /\ stats = ZeroStats
  /\ data # <<>>
  /\ req = NoReq

\* the rows of the blotter that carry the actions marker
MarkedRows == { i \in 1..Len(data) : data[i].actions # "" }

\* C30: when update_stats and refresh_orders of a tick have both run and the
\* filter is "all", Total Orders is the number of rows of the blotter and
\* Working is the number of rows with the actions marker, whatever the two
\* fetches of /orders of that tick returned.
C30_StatsMatchBlotter ==
  [][/\ ev' \in {"update_stats", "update_stats:failed",
                 "refresh_orders", "refresh_orders:failed"}
     /\ {"update_stats", "refresh_orders"} \cap pending # {}
     /\ {"update_stats", "refresh_orders"} \cap pending' = {}
     /\ filter_value' = "all"
     => /\ stats'.orders = Len(data')
        /\ stats'.open = Cardinality(MarkedRows')
    ]_vars

\* ------------------------------------------------------------------------
\* The dashboard as a whole, with few inputs: timer, blotters, modal, order
\* entry (SpecDash)
\* ------------------------------------------------------------------------

\* an open order, and the same order as a backend that names no clOrdId sends it
DashHeld == Order("A2", "MSFT", "SELL", Num(50000), None, "partially_filled",
                  Num(20000), Num(30000))

DashNoId == Order(NoneStr, "MSFT", "SELL", Num(50000), None, "NEW", None, None)

DashOrdersResponses ==
  { [outcome |-> "200", body |-> <<DashHeld>>],
    [outcome |-> "200", body |-> <<DashNoId>>],
    [outcome |-> "500", body |-> <<>>] }

DashExecsResponses ==
  { [outcome |-> "200", body |-> << Execution("E1", "A2", Num(20500), None) >>],
    [outcome |-> "raise", body |-> <<>>] }

\* one form that passes the checks of submit_order and one that does not
DashForms ==
  { [symbol |-> "aapl", quantity |-> Num(100000), price |-> Num(10500),
     order_type |-> "LIMIT"],
    [symbol |-> "", quantity |-> Num(100000), price |-> Num(10500),
     order_type |-> "LIMIT"] }

DashCells == { [row |-> 0, column_id |-> "actions"] }

InitDash ==
  /\ InitApp /\ InitBaseIdle /\ InitPureIdle /\ InitPollIdle
  /\ entry \in DashForms
  /\ order_status_msg = NoneStr
  /\ drawer_order_status_msg = NoneStr

\* how the write requests of SpecDash end
DashOutcomes == {"200", "500"}

NextDash ==
  \/ tick
  \/ \E resp \in DashOrdersResponses : tick_refresh_orders(resp)
  \/ \E resp \in DashExecsResponses : refresh_executions(resp)
  \/ \E fv \in {"all", "filled"}, resp \in DashOrdersResponses : change_filter(fv, resp)
  \/ clear_executions("200")
  \/ \E cell \in DashCells : open_actions_modal(cell)
  \/ edit_amend_qty(Blank)
  \/ \E b \in ModalButtons, outcome \in DashOutcomes : handle_modal_actions(b, outcome)
  \/ \E outcome \in DashOutcomes : submit_order("buy-btn", outcome)
  \/ handle_drawer_orders("drawer-sell-btn", "200")

SpecDash == InitDash /\ [][NextDash]_vars

\* The timer with the failures that could stop it: failed fetches, a rejected
\* form, failed and accepted submits, amends and cancels. The timer fires
\* again and again and Dash runs the callbacks it triggers: weak fairness of
\* the tick and of each callback.
TimerOrdersResponses ==
  { [outcome |-> "200", body |-> <<DashHeld>>], [outcome |-> "500", body |-> <<>>] }

TimerExecsResponses == { [outcome |-> "raise", body |-> <<>>] }

TimerSessionsResponses == { [outcome |-> "500", body |-> <<>>] }

TimerStatsResponses == { [outcome |-> "raise", body |-> <<>>] }

NextTimer ==
  \/ tick
  \/ \E resp \in TimerSessionsResponses : update_connection_status(resp)
  \/ \E resp \in TimerStatsResponses : update_stats(resp)
  \/ \E resp \in TimerOrdersResponses : tick_refresh_orders(resp)
  \/ \E resp \in TimerExecsResponses : refresh_executions(resp)
  \/ \E cell \in DashCells : open_actions_modal(cell)
  \/ \E b \in ModalButtons, outcome \in DashOutcomes : handle_modal_actions(b, outcome)
  \/ \E outcome \in DashOutcomes : submit_order("buy-btn", outcome)

SpecTimer ==
  /\ InitDash
  /\ [][NextTimer]_vars
  /\ WF_vars(tick)
  /\ WF_vars(\E resp \in TimerSessionsResponses : update_connection_status(resp))
  /\ WF_vars(\E resp \in TimerStatsResponses : update_stats(resp))
  /\ WF_vars(\E resp \in TimerOrdersResponses : tick_refresh_orders(resp))
  /\ WF_vars(\E resp \in TimerExecsResponses : refresh_executions(resp))

WriteHandlers == {"submit_order", "handle_drawer_orders", "handle_modal_actions"}

\* C13: a step of submit_order, handle_drawer_orders or handle_modal_actions
\* leaves orders-blotter.data and executions-blotter.data as they are,
\* whether the request succeeded, failed or was not sent; the orders data
\* changes only in a step of refresh_orders (tick or filter change), the
\* executions data only in a step of refresh_executions or clear_executions.
C13_WritesKeepLists ==
  [][/\ ev' \in WriteHandlers => UNCHANGED <<data, exec_data>>
     /\ data' # data =>
          ev' \in {"refresh_orders", "refresh_orders:failed", "change_filter"}
     /\ exec_data' # exec_data =>
          ev' \in {"refresh_executions", "refresh_executions:failed",
                   "clear_executions"}]_vars

\* the cancel of the displayed order was accepted and the blotter still
\* shows the order
C13_Witness ==
  /\ ev = "handle_modal_actions"
  /\ modal_action_status = "Cancel request sent"
  /\ req # NoReq
  /\ req.method = "DELETE"
  /\ data # <<>>
  /\ data[1].clOrdId = req.clOrdId
  /\ exec_data # <<>>

\* C15: a click on Amend or Cancel with no snapshot held, or with a snapshot
\* that has no clOrdId, sends nothing and leaves the modal open or closed as
\* it was; a click on Cancel with a snapshot that has a clOrdId sends one
\* DELETE of that clOrdId with the snapshot's symbol and side as parameters,
\* whatever the amend inputs hold.
C15_NoSnapshotNoRequest ==
  [][ev' = "handle_modal_actions" =>
       \A b \in ModalButtons, outcome \in DashOutcomes :
         handle_modal_actions(b, outcome) =>
           IF modal_order_data = NoData
           THEN req' = NoReq /\ modal_opened' = modal_opened
           ELSE IF modal_order_data.clOrdId \in {NoneStr, ""}
           THEN req' = NoReq /\ modal_opened' = modal_opened
           ELSE b = "modal-cancel-btn" =>
                  req' = [method |-> "DELETE", clOrdId |-> modal_order_data.clOrdId,
                          params |-> [symbol |-> modal_order_data.symbol,
                                      side |-> modal_order_data.side]]]_vars

\* the modal is open on an order that has no clOrdId and a click on Amend or
\* Cancel was answered with "No order selected"
C15_Witness ==
  /\ ev = "handle_modal_actions"
  /\ modal_opened
  /\ modal_order_data # NoData
  /\ modal_order_data.clOrdId = NoneStr
  /\ modal_action_status = "No order selected"
  /\ req = NoReq

\* C19: whatever has happened - failed reads, rejected inputs, failed or
\* accepted submits, amends and cancels - the timer can tick; with a fair
\* timer it ticks infinitely often, and the callbacks of the ticks (each tick
\* starts the count of reads anew) fetch /sessions, /orders and /executions
\* infinitely often.
C19_TimerNeverStops ==
  /\ [](ENABLED <<tick>>_vars)
  /\ []<><<tick>>_vars
  /\ \A u \in ReadUrls : []<>(reads[u] > 0)

\* a tick after a failed submit and a failed cancel, while the blotter is
\* empty after a failed fetch
C19_Witness ==
  /\ ev = "tick"
  /\ order_status_msg = "Order failed"
  /\ modal_action_status = "Cancel failed"
  /\ data = <<>>
  /\ pending = TickCallbacks

\* C20: a write request is sent only in the step of a click on BUY/SELL,
\* Amend, Cancel or Clear, one per click; no other step - tick, refresh,
\* filter change, click on a row, edit - sends one, also after a request that
\* failed.
C20_NoAutomaticRetry ==
  [][req' # NoReq =>
       /\ ev' \in WriteHandlers \cup {"clear_executions"}
       /\ ev' = "submit_order" => req'.method = "POST"
       /\ ev' = "handle_modal_actions" => req'.method \in {"PUT", "DELETE"}]_vars

\* the cancel has failed and the next tick has come and its refresh has run:
\* nothing was sent again
C20_Witness ==
  /\ ev \in {"refresh_orders", "refresh_orders:failed"}
  /\ modal_action_status = "Cancel failed"
  /\ modal_opened
  /\ req = NoReq


\* ------------------------------------------------------------------------
\* The blotter and the modal against a backend whose order list changes
\* (SpecSync)
\* ------------------------------------------------------------------------

\* the order A1 as the backend reports it while it is open, once it is
\* filled, once it is cancelled
SyncA1 ==
  { Order("A1", "AAPL", "BUY", Num(100000), Num(10004), "NEW", None, None),
    Order("A1", "AAPL", "BUY", Num(100000), Num(10004), "FILLED", Num(100000), Num(0)),
    Order("A1", "AAPL", "BUY", Num(100000), Num(10004), "CANCELLED", None, None) }

\* the lists GET /orders can return: A1 in one of its states, alone or
\* followed by the open order A2
SyncLists ==
  {<<>>} \cup { <<a>> : a \in SyncA1 } \cup { <<a, DashHeld>> : a \in SyncA1 }

\* the backend's order list changes: an order arrives, is filled, is cancelled
backend_update(l) ==
  /\ l # backend
  /\ backend' = l
  /\ ev' = "backend"
  /\ req' = NoReq
  /\ UNCHANGED <<polled, inflight, filter_value, appVars, entryVars, baseVars,
                 pureVars, pollVars>>

\* poll_orders leaving the blotter as it is while the modal is open
poll_orders_KeepWhileOpen(outcome) ==
  /\ data' = IF modal_opened THEN data
             ELSE RefreshedData(outcome, backend, filter_value)
  /\ polled' = IF outcome = "200" THEN <<backend>> ELSE polled
  /\ ev' = IF outcome = "200" THEN "refresh_orders" ELSE "refresh_orders:failed"
  /\ req' = NoReq
  /\ UNCHANGED <<backend, inflight, filter_value, modalVars, entryVars, baseVars,
                 pureVars, pollVars>>

\* refresh_orders on a tick: the GET of /orders returns the backend's list,
\* or fails
poll_orders(outcome) ==
  /\ data' = RefreshedData(outcome, backend, filter_value)
  /\ polled' = IF outcome = "200" THEN <<backend>> ELSE polled
  /\ ev' = IF outcome = "200" THEN "refresh_orders" ELSE "refresh_orders:failed"
  /\ req' = NoReq
  /\ UNCHANGED <<backend, inflight, filter_value, modalVars, entryVars, baseVars,
                 pureVars, pollVars>>

\* refresh_orders on a change of orders-filter
poll_change_filter(fv, outcome) ==
  /\ fv # filter_value
  /\ filter_value' = fv
  /\ data' = RefreshedData(outcome, backend, fv)
  /\ polled' = IF outcome = "200" THEN <<backend>> ELSE polled
  /\ ev' = IF outcome = "200" THEN "change_filter" ELSE "change_filter:failed"
  /\ req' = NoReq
  /\ UNCHANGED <<backend, inflight, modalVars, entryVars, baseVars, pureVars, pollVars>>

NextSync ==
  \/ \E l \in SyncLists : backend_update(l)
  \/ \E outcome \in HttpOutcomes : poll_orders(outcome)
  \/ \E fv \in FilterValues, outcome \in DashOutcomes : poll_change_filter(fv, outcome)
  \/ \E cell \in Cells : open_actions_modal(cell)
  \/ close_modal
  \/ \E b \in ModalButtons, outcome \in DashOutcomes : handle_modal_actions(b, outcome)

SpecSync == Init /\ [][NextSync]_vars

\* the spellings of the status the filter value lets through
Passing(fv) ==
  IF fv = "working" THEN OpenSpellings
  ELSE IF fv = "filled" THEN FilledSpellings
  ELSE RawStatuses \cup {"CANCELLED"}

\* C21: a click on Amend or Cancel leaves the blotter as it was, whatever the
\* backend did with the request; every refresh whose fetch succeeds - the
\* first after the click and each later one - leaves the blotter equal to the
\* rows of the backend's list that pass the filter, in the backend's order.
C21_PollShowsBackend ==
  [][/\ ev' = "handle_modal_actions" => data' = data
     /\ ev' = "refresh_orders" =>
          /\ data' = normalize_orders_for_table(Keep(backend, Passing(filter_value), 1))
          /\ Len(data') =< Len(backend)
          /\ filter_value = "all" =>
               /\ IdsOf(data') = IdsOf(backend)
               /\ \A i \in 1..Len(backend) : data'[i].status = backend[i].status
    ]_vars

\* the cancel of A1 was accepted, the backend reports A1 as cancelled, and the
\* refresh that followed shows it without the marker
C21_Witness ==
  /\ ev = "refresh_orders"
  /\ modal_action_status = "Cancel request sent"
  /\ modal_order_data # NoData
  /\ modal_order_data.status = "NEW"
  /\ backend = << Order("A1", "AAPL", "BUY", Num(100000), Num(10004), "CANCELLED",
                         None, None) >>
  /\ Len(data) = 1
  /\ data[1].status = "CANCELLED"
  /\ data[1].actions = ""

\* C25: every PUT and DELETE of the modal names an order that the latest
\* successful fetch of /orders reported with an open status.
C25_RequestsOnlyForOpen ==
  [][ev' = "handle_modal_actions" /\ req' # NoReq =>
       /\ polled # <<>>
       /\ \E i \in 1..Len(polled[1]) :
            /\ polled[1][i].clOrdId = req'.clOrdId
            /\ Upper(polled[1][i].status) \in OPEN_STATUSES
    ]_vars


\* ------------------------------------------------------------------------
\* Refreshes of the blotter that overlap: each request carries the filter
\* value of the moment it was made, the answers are applied as they arrive
\* (SpecRace)
\* ------------------------------------------------------------------------

\* the refreshes that can run at once
MaxInflight == 2

\* start_refresh with the request carrying no filter value
start_refresh_Unfiltered(fv, resp) ==
  /\ Cardinality(inflight) < MaxInflight
  /\ filter_value' = fv
  /\ inflight' = inflight \cup
        { [fv |-> fv, rows |-> RefreshedData(resp.outcome, resp.body, "all")] }
  /\ ev' = IF fv = filter_value THEN "start_refresh:tick" ELSE "start_refresh:filter"
  /\ req' = NoReq
  /\ UNCHANGED <<backend, polled, appVars, entryVars, baseVars, pureVars, pollVars>>

\* a tick (fv is the filter value in place) or a change of orders-filter to
\* fv sends the callback request of refresh_orders; the server fetches /orders
\* and computes the rows, which are on their way to the browser
start_refresh(fv, resp) ==
  /\ Cardinality(inflight) < MaxInflight
  /\ filter_value' = fv
  /\ inflight' = inflight \cup
        { [fv |-> fv, rows |-> RefreshedData(resp.outcome, resp.body, fv)] }
  /\ ev' = IF fv = filter_value THEN "start_refresh:tick" ELSE "start_refresh:filter"
  /\ req' = NoReq
  /\ UNCHANGED <<backend, polled, appVars, entryVars, baseVars, pureVars, pollVars>>

\* the answer of a running refresh arrives: its rows become orders-blotter.data
complete_refresh(r) ==
  /\ r \in inflight
  /\ data' = r.rows
  /\ inflight' = inflight \ {r}
  /\ ev' = IF r.fv = filter_value THEN "complete_refresh" ELSE "complete_refresh:stale"
  /\ req' = NoReq
  /\ UNCHANGED <<backend, polled, filter_value, modalVars, entryVars, baseVars,
                 pureVars, pollVars>>

NextRace ==
  \/ \E fv \in FilterValues, resp \in OrdersResponses : start_refresh(fv, resp)
  \/ \E r \in inflight : complete_refresh(r)

SpecRace == Init /\ [][NextRace]_vars

\* every row of the table passes the filter value fv
RowsPass(rows, fv) ==
  \A i \in 1..Len(rows) :
    /\ fv = "working" => rows[i].actions # ""
    /\ fv = "filled" => Upper(rows[i].status) = "FILLED"

\* C29 as claimed: when no refresh is running, every row of the blotter
\* passes the filter value in place.
C29_RowsPassCurrentFilter ==
  inflight = {} => RowsPass(data, filter_value)

\* C29 amended: the rows an arriving answer puts into the blotter pass the
\* filter value its request was made with; they pass the filter value in
\* place when the request was made with that value.
C29_RowsPassRequestFilter ==
  [][\A r \in inflight :
       complete_refresh(r) =>
         /\ data' = r.rows
         /\ RowsPass(data', r.fv)
         /\ r.fv = filter_value' => RowsPass(data', filter_value')
    ]_vars

\* the answer of a refresh made under "all" has arrived after the filter was
\* set to "working" and after the answer of that change: no refresh is
\* running and the blotter shows a filled order
C29_Witness ==
  /\ ev = "complete_refresh:stale"
  /\ inflight = {}
  /\ filter_value = "working"
  /\ Len(data) = 2
  /\ data[1].status = "FILLED"
  /\ data[1].actions = ""

=============================================================================
